---- MODULE Spec2Model ----
(***************************************************************************)
(* Model of conda/cli/main_compare.py: the `conda compare` command.        *)
(*                                                                         *)
(*   compare_packages  reconciles an inventory with a specification list   *)
(*   display_table     renders the text of a line diff as a table          *)
(*   compare_envs      materializes two environments, diffs and renders    *)
(*                                                                         *)
(* A text is a sequence of one-character strings; a literal fragment of a  *)
(* message that is never taken apart is kept as one element.               *)
(***************************************************************************)
EXTENDS Integers, Sequences, FiniteSets, TLC

VARIABLES
    \* compare_packages
    active_pkgs,          \* dict name -> record, as its items in insertion order
    specification_pkgs,   \* the list of specification texts
    idx,                  \* position of the for loop (1-based)
    output,               \* the local list `output`
    miss,                 \* the local flag `miss`
    cp_pc,                \* "loop" | "done" | "raised"
    cp_ret,               \* the returned (exitcode, output), or NoResult
    \* display_table
    dt_lines,             \* the lines the diff utility wrote
    dt_eols,              \* the line terminators of its odd and of its even lines
    dt_env1,              \* argument env1
    dt_env2,              \* argument env2
    dt_out,               \* what display_table printed, one element per print
    dt_pc,                \* "call" | "done" | "raised"
    \* compare_envs, one call per run
    ce_pc,                \* position of each run in compare_envs
    ce_args,              \* the arguments env1, env2 of each run
    ce_status,            \* what os.system returned to each run (the code drops it)
    ce_created,           \* the temporary files each run's shell command created
    ce_fd,                \* the file the redirection of each run's shell has open
    ce_overlap,           \* another call was in progress at some moment of each run
    ce_stat,              \* what the stat calls of each run's diff process found
    ce_open,              \* the files each run's diff process has opened
    ce_read,              \* what each run's diff process has read of each file so far
    ce_stdout,            \* what each run printed
    dir,                  \* the working directory: the file each temporary name names
    inodes,               \* the content of each file, named or not
    which_on_path,        \* there is a `which` to run
    diff_installed,       \* `which diff` finds diff
    conda_on_path,        \* `which conda` finds conda
    shell_ok,             \* the shell can source etc/profile.d/conda.sh
    existing              \* the names `conda activate` accepts

cpVars == <<active_pkgs, specification_pkgs, idx, output, miss, cp_pc, cp_ret>>

dtVars == <<dt_lines, dt_eols, dt_env1, dt_env2, dt_out, dt_pc>>

ceVars == <<ce_pc, ce_args, ce_overlap, ce_status, ce_created, ce_fd, ce_stat, ce_open,
            ce_read, ce_stdout, dir, inodes, which_on_path, diff_installed, conda_on_path,
            shell_ok, existing>>

vars == <<cpVars, dtVars, ceVars>>

-----------------------------------------------------------------------------
(* Bounds of the model *)

MaxSpecs == 3
MaxLines == 3

-----------------------------------------------------------------------------
(* Texts *)

Lower(c) == IF c = "A" THEN "a" ELSE IF c = "B" THEN "b" ELSE c

LowerText(t) == [i \in 1..Len(t) |-> Lower(t[i])]

\* the fields of t between the occurrences of sep (str.split(sep))
RECURSIVE SplitOn(_, _)
SplitOn(t, sep) ==
    IF \A i \in 1..Len(t) : t[i] # sep
    THEN <<t>>
    ELSE LET k == CHOOSE i \in 1..Len(t) : t[i] = sep /\ \A j \in 1..(i-1) : t[j] # sep
         IN  <<SubSeq(t, 1, k-1)>> \o SplitOn(SubSeq(t, k+1, Len(t)), sep)

\* s occurs in t as a contiguous run
Contains(t, s) ==
    \E i \in 0..(Len(t) - Len(s)) : SubSeq(t, i+1, i+Len(s)) = s

-----------------------------------------------------------------------------
(* MatchSpec (conda.models.match_spec): name[=version[=build]] *)

NoConstraint == <<>>
Wildcard == <<"*">>

\* MatchSpec(pkg) raises on structurally invalid text
MatchSpecRaises(pkg) ==
    LET f == SplitOn(pkg, "=")
    IN  \/ Len(f) > 3
        \/ \E i \in 1..Len(f) : f[i] = <<>>

\* the parsed specification: canonical (lowercased) name and the constraints
MatchSpec(pkg) ==
    LET f == SplitOn(pkg, "=")
    IN  [name    |-> LowerText(f[1]),
         version |-> IF Len(f) >= 2 THEN f[2] ELSE NoConstraint,
         build   |-> IF Len(f) >= 3 THEN f[3] ELSE NoConstraint]

FieldMatches(constraint, value) ==
    constraint = NoConstraint \/ constraint = Wildcard \/ constraint = value

\* MatchSpec.match(record)
Match(pkg_spec, rec) ==
    /\ pkg_spec.name = rec.name
    /\ FieldMatches(pkg_spec.version, rec.version)
    /\ FieldMatches(pkg_spec.build, rec.build)

-----------------------------------------------------------------------------
(* The inventory: a dict keyed by package name *)

DictKeys(d) == {d[i].name : i \in DOMAIN d}

DictGet(d, k) == d[CHOOSE i \in DOMAIN d : d[i].name = k]

-----------------------------------------------------------------------------
(* compare_packages *)

NoResult == [code |-> -1, output |-> <<>>]

SuccessLine ==
    <<"Success. All the packages in the specification file are present in the environment with matching version and build string.">>

NotFoundLineRaw(name, pkg) == pkg \o <<" not found">>

\* f"{name} not found"
NotFoundLine(name, pkg) == name \o <<" not found">>

MismatchLineSwapped(name, pkg, active_pkg) ==
    name \o <<" found but mismatch. Specification pkg: ">> \o pkg
         \o <<", Running pkg: ">> \o active_pkg.name \o <<"==">>
         \o active_pkg.build \o <<"=">> \o active_pkg.version

\* f"{name} found but mismatch. Specification pkg: {pkg}, Running pkg: ..."
MismatchLine(name, pkg, active_pkg) ==
    name \o <<" found but mismatch. Specification pkg: ">> \o pkg
         \o <<", Running pkg: ">> \o active_pkg.name \o <<"==">>
         \o active_pkg.version \o <<"=">> \o active_pkg.build

FinalOutputAlways(m, out) == Append(out, SuccessLine)

\* if not miss: output.append(success)
FinalOutput(m, out) == IF ~m THEN Append(out, SuccessLine) ELSE out

\* int(miss)
ExitCode(m) == IF m THEN 1 ELSE 0

\* the for loop goes on to the next entry after a failing one
AfterFailure(i) == i + 1

AppendLineOnce(out, line) ==
    IF \E j \in DOMAIN out : out[j] = line THEN out ELSE Append(out, line)

\* output.append(line)
AppendLine(out, line) == Append(out, line)

InLoop == cp_pc = "loop" /\ idx <= Len(specification_pkgs)

CP_ParseErrorSkip ==
    /\ InLoop
    /\ MatchSpecRaises(specification_pkgs[idx])
    /\ miss' = TRUE
    /\ idx' = idx + 1
    /\ UNCHANGED <<active_pkgs, specification_pkgs, output, cp_pc, cp_ret, dtVars, ceVars>>

\* MatchSpec(pkg) raises: the exception leaves compare_packages, nothing is returned
CP_ParseError ==
    /\ InLoop
    /\ MatchSpecRaises(specification_pkgs[idx])
    /\ cp_pc' = "raised"
    /\ UNCHANGED <<active_pkgs, specification_pkgs, idx, output, miss, cp_ret, dtVars, ceVars>>

\* name not in active_pkgs
CP_NotFound ==
    /\ InLoop
    /\ ~MatchSpecRaises(specification_pkgs[idx])
    /\ LET pkg == specification_pkgs[idx]
           pkg_spec == MatchSpec(pkg)
       IN  /\ pkg_spec.name \notin DictKeys(active_pkgs)
           /\ miss' = TRUE
           /\ output' = AppendLine(output, NotFoundLine(pkg_spec.name, pkg))
    /\ idx' = AfterFailure(idx)
    /\ UNCHANGED <<active_pkgs, specification_pkgs, cp_pc, cp_ret, dtVars, ceVars>>

\* name in active_pkgs and not pkg_spec.match(active_pkgs[name])
CP_Mismatch ==
    /\ InLoop
    /\ ~MatchSpecRaises(specification_pkgs[idx])
    /\ LET pkg == specification_pkgs[idx]
           pkg_spec == MatchSpec(pkg)
       IN  /\ pkg_spec.name \in DictKeys(active_pkgs)
           /\ ~Match(pkg_spec, DictGet(active_pkgs, pkg_spec.name))
           /\ miss' = TRUE
           /\ output' = AppendLine(output,
                  MismatchLine(pkg_spec.name, pkg, DictGet(active_pkgs, pkg_spec.name)))
    /\ idx' = AfterFailure(idx)
    /\ UNCHANGED <<active_pkgs, specification_pkgs, cp_pc, cp_ret, dtVars, ceVars>>

\* name in active_pkgs and pkg_spec.match(active_pkgs[name]): nothing is appended
CP_Match ==
    /\ InLoop
    /\ ~MatchSpecRaises(specification_pkgs[idx])
    /\ LET pkg_spec == MatchSpec(specification_pkgs[idx])
       IN  /\ pkg_spec.name \in DictKeys(active_pkgs)
           /\ Match(pkg_spec, DictGet(active_pkgs, pkg_spec.name))
    /\ idx' = idx + 1
    /\ UNCHANGED <<active_pkgs, specification_pkgs, output, miss, cp_pc, cp_ret, dtVars, ceVars>>

\* after the loop: the success line when nothing missed, then return
CP_Return ==
    /\ cp_pc = "loop"
    /\ idx > Len(specification_pkgs)
    /\ output' = FinalOutput(miss, output)
    /\ cp_ret' = [code |-> ExitCode(miss), output |-> output']
    /\ cp_pc' = "done"
    /\ UNCHANGED <<active_pkgs, specification_pkgs, idx, miss, dtVars, ceVars>>

-----------------------------------------------------------------------------
(* display_table *)

PackageWidth == 40
EnvWidth == 20

\* format spec :<w : left-justify in a field of w characters, never truncate
Pad(t, w) == IF Len(t) >= w THEN t ELSE t \o [i \in 1..(w - Len(t)) |-> " "]

\* the line boundaries of str.splitlines: \n \r \v \f \x1c \x1d \x1e \x85 \u2028 \u2029
\* (a character TLA+ has no escape for is written as its Python escape)
LineBreaks ==
    {"\n", "\r", "\f", "\\v", "\\x1c", "\\x1d", "\\x1e", "\\x85", "\\u2028", "\\u2029"}

IsBreak(c) == c \in LineBreaks

\* str.splitlines(): a line ends at each line boundary, \r\n counting as one
RECURSIVE SplitLines(_)
SplitLines(t) ==
    IF t = <<>> THEN <<>>
    ELSE IF \A i \in 1..Len(t) : ~IsBreak(t[i]) THEN <<t>>
    ELSE LET k == CHOOSE i \in 1..Len(t) :
                      IsBreak(t[i]) /\ \A j \in 1..(i-1) : ~IsBreak(t[j])
             n == IF t[k] = "\r" /\ k < Len(t) /\ t[k+1] = "\n" THEN k + 2 ELSE k + 1
         IN  <<SubSeq(t, 1, k-1)>> \o SplitLines(SubSeq(t, n, Len(t)))

StartsWith(line, c) == Len(line) >= 1 /\ line[1] = c

\* an argument that is a str, or the one-element list argparse builds for nargs=1
IsStr(arg) == arg.kind = "str"

\* str(arg)
StrOf(arg) == IF IsStr(arg) THEN arg.name ELSE <<"[", "'">> \o arg.name \o <<"'", "]">>

TitleLine == <<"\nPackage Differences:\n">>

HeaderLine(env1, env2) ==
    Pad(<<"P","a","c","k","a","g","e">>, PackageWidth) \o <<" ">>
        \o Pad(env1.name, EnvWidth) \o <<" ">> \o Pad(env2.name, EnvWidth)

RuleLine ==
    Pad(<<"-","-","-","-","-","-","-">>, PackageWidth) \o <<" ">>
        \o Pad(<<"-","-","-","-">>, EnvWidth) \o <<" ">>
        \o Pad(<<"-","-","-","-">>, EnvWidth)

Present == <<"P","r","e","s","e","n","t">>
Absent == <<"A","b","s","e","n","t">>

Row(color, package, a, b) ==
    <<color>> \o Pad(package, PackageWidth) \o <<" ">> \o Pad(a, EnvWidth)
              \o <<" ">> \o Pad(b, EnvWidth) \o <<"ESC[0m">>

\* line[2:]
StripMarker(line) == SubSeq(line, 3, Len(line))

\* the body of the for loop: the rows one line gives
RowsOfLine(line) ==
    IF StartsWith(line, "<")
    THEN <<Row("ESC[41m", StripMarker(line), Present, Absent)>>
    ELSE IF StartsWith(line, ">")
    THEN <<Row("ESC[44m", StripMarker(line), Absent, Present)>>
    ELSE <<>>

RECURSIVE RowsOfLinesMerged(_)
RowsOfLinesMerged(lines) ==
    IF lines = <<>> THEN <<>>
    ELSE LET rest == RowsOfLinesMerged(Tail(lines))
             here == RowsOfLine(Head(lines))
         IN  IF here # <<>> /\ \E i \in DOMAIN rest :
                    SubSeq(rest[i], 2, 1 + PackageWidth) = SubSeq(here[1], 2, 1 + PackageWidth)
             THEN rest
             ELSE here \o rest

RECURSIVE RowsOfLines(_)
RowsOfLines(lines) ==
    IF lines = <<>> THEN <<>>
    ELSE RowsOfLine(Head(lines)) \o RowsOfLines(Tail(lines))

\* for line in diff_output.splitlines(): ...
TableRows(diff_output) == RowsOfLines(SplitLines(diff_output))

\* the header formats env1 and env2 with :<20, which a list does not support
DisplayRaises(env1, env2) == ~IsStr(env1) \/ ~IsStr(env2)

\* everything display_table prints
DisplayTable(diff_output, env1, env2) ==
    IF DisplayRaises(env1, env2)
    THEN <<TitleLine>>
    ELSE <<TitleLine, HeaderLine(env1, env2), RuleLine>> \o TableRows(diff_output)

\* the stdout of the diff utility, decoded: line i ends with eols[i], the
\* terminators taken in turn
RECURSIVE JoinFrom(_, _, _)
JoinFrom(lines, eols, i) ==
    IF i > Len(lines) THEN <<>>
    ELSE lines[i] \o eols[((i - 1) % Len(eols)) + 1] \o JoinFrom(lines, eols, i + 1)

JoinLines(lines, eols) == JoinFrom(lines, eols, 1)

DT_Render ==
    /\ dt_pc = "call"
    /\ ~DisplayRaises(dt_env1, dt_env2)
    /\ dt_out' = DisplayTable(JoinLines(dt_lines, dt_eols), dt_env1, dt_env2)
    /\ dt_pc' = "done"
    /\ UNCHANGED <<dt_lines, dt_eols, dt_env1, dt_env2, cpVars, ceVars>>

DT_Raise ==
    /\ dt_pc = "call"
    /\ DisplayRaises(dt_env1, dt_env2)
    /\ dt_out' = DisplayTable(JoinLines(dt_lines, dt_eols), dt_env1, dt_env2)
    /\ dt_pc' = "raised"
    /\ UNCHANGED <<dt_lines, dt_eols, dt_env1, dt_env2, cpVars, ceVars>>

-----------------------------------------------------------------------------
(* compare_envs *)

Runs == {1, 2}

File1 == "env1_packages.txt"
File2 == "env2_packages.txt"
TempFiles == {File1, File2}

\* a name of the working directory that names no file
NoInode == 0

\* the file a run's shell creates for a name, should the name be free
InodeOf(r, name) == 2 * (r - 1) + (IF name = File1 THEN 1 ELSE 2)

Inodes == {InodeOf(r, name) : r \in Runs, name \in TempFiles}

\* the content of a file: its text and the run that last emptied or wrote it
\* (writer 0: no such file)
NoFile == [writer |-> 0, text |-> <<>>]
EmptyFile(r) == [writer |-> r, text |-> <<>>]
NotRead == <<>>

\* `conda list` of an environment: one line per package, each ended by \n
PkgText(env) ==
    IF env = <<"e", "1">>
    THEN <<"p", "p", "\n", "q", "\n", "s", "\n">>
    ELSE <<"q", "\n", "r", "\n">>

\* the lines of a text as diff takes them: ended by \n
FileLines(t) ==
    LET f == SplitOn(t, "\n")
    IN  IF f[Len(f)] = <<>> THEN SubSeq(f, 1, Len(f) - 1) ELSE f

Digits == <<"0", "1", "2", "3", "4", "5", "6", "7", "8", "9">>

\* a line number in decimal
RECURSIVE Num(_)
Num(n) ==
    IF n < 10 THEN <<Digits[n + 1]>>
    ELSE Num(n \div 10) \o <<Digits[(n % 10) + 1]>>

\* a line range of a hunk header: n, or lo,hi
Range(lo, hi) == IF lo = hi THEN Num(lo) ELSE Num(lo) \o <<",">> \o Num(hi)

\* length of a longest common subsequence of two line sequences
RECURSIVE LCS(_, _)
LCS(xs, ys) ==
    IF xs = <<>> \/ ys = <<>> THEN 0
    ELSE IF Head(xs) = Head(ys) THEN 1 + LCS(Tail(xs), Tail(ys))
    ELSE LET a == LCS(Tail(xs), ys)
             b == LCS(xs, Tail(ys))
         IN  IF a >= b THEN a ELSE b

\* the edit script of diff: "=" keep, "d" delete a left line, "a" add a right
\* line. Common lines at both ends are kept first, then a shortest script is
\* taken, a deletion before an addition. For files whose lines are all
\* different this is the script GNU diff takes; with repeated lines GNU diff
\* may take another script of the same length.
RECURSIVE Script(_, _)
Script(xs, ys) ==
    IF xs = <<>> THEN [k \in 1..Len(ys) |-> "a"]
    ELSE IF ys = <<>> THEN [k \in 1..Len(xs) |-> "d"]
    ELSE IF Head(xs) = Head(ys) THEN <<"=">> \o Script(Tail(xs), Tail(ys))
    ELSE IF xs[Len(xs)] = ys[Len(ys)]
    THEN Script(SubSeq(xs, 1, Len(xs) - 1), SubSeq(ys, 1, Len(ys) - 1)) \o <<"=">>
    ELSE IF LCS(Tail(xs), ys) >= LCS(xs, Tail(ys)) THEN <<"d">> \o Script(Tail(xs), ys)
    ELSE <<"a">> \o Script(xs, Tail(ys))

\* how many times op stands at the head of ops
RECURSIVE RunLen(_, _)
RunLen(ops, op) ==
    IF ops = <<>> \/ Head(ops) # op THEN 0 ELSE 1 + RunLen(Tail(ops), op)

\* one hunk in the normal format: d left lines after line i go, a right lines
\* after line j come
Hunk(xs, ys, i, d, j, a) ==
    LET header == IF a = 0 THEN Range(i + 1, i + d) \o <<"d">> \o Num(j)
                  ELSE IF d = 0 THEN Num(i) \o <<"a">> \o Range(j + 1, j + a)
                  ELSE Range(i + 1, i + d) \o <<"c">> \o Range(j + 1, j + a)
        left == [k \in 1..d |-> <<"<", " ">> \o xs[i + k]]
        right == [k \in 1..a |-> <<">", " ">> \o ys[j + k]]
        rule == IF d > 0 /\ a > 0 THEN << <<"-", "-", "-">> >> ELSE <<>>
    IN  <<header>> \o left \o rule \o right

RECURSIVE Hunks(_, _, _, _, _)
Hunks(xs, ys, ops, i, j) ==
    IF ops = <<>> THEN <<>>
    ELSE IF Head(ops) = "=" THEN Hunks(xs, ys, Tail(ops), i + 1, j + 1)
    ELSE LET d == RunLen(ops, "d")
             a == RunLen(SubSeq(ops, d + 1, Len(ops)), "a")
         IN  Hunk(xs, ys, i, d, j, a)
                 \o Hunks(xs, ys, SubSeq(ops, d + a + 1, Len(ops)), i + d, j + a)

\* the lines diff writes to its standard output when it has read text a from
\* the first file and text b from the second
DiffLinesOf(a, b) ==
    LET xs == FileLines(a)
        ys == FileLines(b)
    IN  Hunks(xs, ys, Script(xs, ys), 0, 0)

MissingDiffMessage == <<"diff command could not be found. Please install it to proceed.">>

\* check_diff_installed: exit(1) when `which diff` fails
AfterCheck(installed) == IF installed THEN "setup" ELSE "exited"

\* the arguments and the host: no step of compare_envs assigns them
ceFixed == <<ce_args, which_on_path, diff_installed, conda_on_path, shell_ok, existing>>

\* a call of compare_envs is in progress
Active(r) == ce_pc[r] \notin {"idle", "done", "raised", "exited"}

\* execute: if args.diff: compare_envs(args.env1, args.env2); a call that
\* begins while another is in progress overlaps it
CE_Call(r) ==
    /\ ce_pc[r] = "idle"
    /\ ce_pc' = [ce_pc EXCEPT ![r] = "check"]
    /\ ce_overlap' = [q \in Runs |->
                         IF q = r THEN \E o \in Runs \ {r} : Active(o)
                         ELSE ce_overlap[q] \/ Active(q)]
    /\ UNCHANGED <<ce_status, ce_created, ce_fd, ce_stat, ce_open, ce_read, ce_stdout, dir,
                   inodes, ceFixed, cpVars, dtVars>>

\* check_diff_installed: subprocess.call(["which", "diff"]) raises
\* FileNotFoundError when there is no `which` to run; when `which` does not
\* find diff the message is printed and exit(1) follows, unless the print
\* raises OSError (standard output is a pipe whose reader left)
CE_CheckDiff(r) ==
    /\ ce_pc[r] = "check"
    /\ IF ~which_on_path
       THEN /\ ce_pc' = [ce_pc EXCEPT ![r] = "raised"]
            /\ UNCHANGED ce_stdout
       ELSE IF diff_installed
       THEN /\ ce_pc' = [ce_pc EXCEPT ![r] = AfterCheck(TRUE)]
            /\ UNCHANGED ce_stdout
       ELSE \E printed \in BOOLEAN :
               IF printed
               THEN /\ ce_stdout' = [ce_stdout EXCEPT ![r] = Append(@, MissingDiffMessage)]
                    /\ ce_pc' = [ce_pc EXCEPT ![r] = AfterCheck(FALSE)]
               ELSE /\ ce_pc' = [ce_pc EXCEPT ![r] = "raised"]
                    /\ UNCHANGED ce_stdout
    /\ UNCHANGED <<ce_status, ce_created, ce_fd, ce_stat, ce_open, ce_read, dir, inodes,
                   ce_overlap, ceFixed, cpVars, dtVars>>

\* find_conda_setup: check_output(["which", "conda"]) raises when conda is not found
CE_FindSetup(r) ==
    /\ ce_pc[r] = "setup"
    /\ ce_pc' = [ce_pc EXCEPT ![r] =
                    IF which_on_path /\ conda_on_path THEN "sh_source" ELSE "raised"]
    /\ UNCHANGED <<ce_status, ce_created, ce_fd, ce_stat, ce_open, ce_read, ce_stdout, dir, inodes,
                   ce_overlap, ceFixed, cpVars, dtVars>>

\* a command of the && chain failed: os.system returns, the code goes on to diff
ShellStops(r) ==
    /\ ce_pc' = [ce_pc EXCEPT ![r] = "diff"]
    /\ ce_status' = [ce_status EXCEPT ![r] = "failed"]

\* source {conda_setup} && ...
CE_ShSource(r) ==
    /\ ce_pc[r] = "sh_source"
    /\ IF shell_ok
       THEN ce_pc' = [ce_pc EXCEPT ![r] = "sh_activate1"] /\ UNCHANGED ce_status
       ELSE ShellStops(r)
    /\ UNCHANGED <<ce_created, ce_fd, ce_stat, ce_open, ce_read, ce_stdout, dir, inodes,
                   ce_overlap, ceFixed, cpVars, dtVars>>

\* the file a redirection to name opens: the one the name names, or a new one
Redirected(d, r, name) == IF d[name] = NoInode THEN InodeOf(r, name) ELSE d[name]

\* write(fd, data) at offset 0 of a file opened without O_APPEND: data lies
\* over the head of what the file holds, the rest stays
Overlay(old, data) ==
    IF Len(data) >= Len(old) THEN data
    ELSE data \o SubSeq(old, Len(data) + 1, Len(old))

\* `conda list` writes to the file its shell opened
Written(f, r, data) == [writer |-> r, text |-> Overlay(f.text, data)]

\* > name: the shell opens the file for writing, creating it or emptying the
\* one that is there, before the command runs; when it cannot, the chain stops
ShRedirect(r, name, next) ==
    \E ok \in BOOLEAN :
        IF ok
        THEN /\ dir' = [dir EXCEPT ![name] = Redirected(dir, r, name)]
             /\ inodes' = [inodes EXCEPT ![Redirected(dir, r, name)] = EmptyFile(r)]
             /\ ce_fd' = [ce_fd EXCEPT ![r] = Redirected(dir, r, name)]
             /\ ce_created' = [ce_created EXCEPT ![r] = @ \cup {name}]
             /\ ce_pc' = [ce_pc EXCEPT ![r] = next]
             /\ UNCHANGED ce_status
        ELSE /\ ShellStops(r)
             /\ UNCHANGED <<dir, inodes, ce_fd, ce_created>>

\* conda list > name: the command, which may fail
ShList(r, env, next) ==
    \E ok \in BOOLEAN :
        IF ok
        THEN /\ inodes' = [inodes EXCEPT ![ce_fd[r]] = Written(@, r, PkgText(StrOf(env)))]
             /\ ce_pc' = [ce_pc EXCEPT ![r] = next]
             /\ UNCHANGED ce_status
        ELSE ShellStops(r) /\ UNCHANGED inodes

\* conda activate {env1} && ...
CE_ShActivate1(r) ==
    /\ ce_pc[r] = "sh_activate1"
    /\ IF StrOf(ce_args[r].env1) \in existing
       THEN ce_pc' = [ce_pc EXCEPT ![r] = "sh_redirect1"] /\ UNCHANGED ce_status
       ELSE ShellStops(r)
    /\ UNCHANGED <<ce_created, ce_fd, ce_stat, ce_open, ce_read, ce_stdout, dir, inodes,
                   ce_overlap, ceFixed, cpVars, dtVars>>

\* conda list > env1_packages.txt: the redirection
CE_ShRedirect1(r) ==
    /\ ce_pc[r] = "sh_redirect1"
    /\ ShRedirect(r, File1, "sh_list1")
    /\ UNCHANGED <<ce_stat, ce_open, ce_read, ce_stdout, ce_overlap, ceFixed, cpVars, dtVars>>

\* conda list > env1_packages.txt && ...: the command
CE_ShList1(r) ==
    /\ ce_pc[r] = "sh_list1"
    /\ ShList(r, ce_args[r].env1, "sh_activate2")
    /\ UNCHANGED <<ce_created, ce_fd, ce_stat, ce_open, ce_read, ce_stdout, dir,
                   ce_overlap, ceFixed, cpVars, dtVars>>

\* conda activate {env2} && ...
CE_ShActivate2(r) ==
    /\ ce_pc[r] = "sh_activate2"
    /\ IF StrOf(ce_args[r].env2) \in existing
       THEN ce_pc' = [ce_pc EXCEPT ![r] = "sh_redirect2"] /\ UNCHANGED ce_status
       ELSE ShellStops(r)
    /\ UNCHANGED <<ce_created, ce_fd, ce_stat, ce_open, ce_read, ce_stdout, dir, inodes,
                   ce_overlap, ceFixed, cpVars, dtVars>>

\* conda list > env2_packages.txt: the redirection
CE_ShRedirect2(r) ==
    /\ ce_pc[r] = "sh_redirect2"
    /\ ShRedirect(r, File2, "sh_list2")
    /\ UNCHANGED <<ce_stat, ce_open, ce_read, ce_stdout, ce_overlap, ceFixed, cpVars, dtVars>>

\* conda list > env2_packages.txt && ...: the command
CE_ShList2(r) ==
    /\ ce_pc[r] = "sh_list2"
    /\ ShList(r, ce_args[r].env2, "sh_deactivate")
    /\ UNCHANGED <<ce_created, ce_fd, ce_stat, ce_open, ce_read, ce_stdout, dir,
                   ce_overlap, ceFixed, cpVars, dtVars>>

\* conda deactivate, which may fail; os.system returns its status
CE_ShDeactivate(r) ==
    /\ ce_pc[r] = "sh_deactivate"
    /\ \E ok \in BOOLEAN :
          ce_status' = [ce_status EXCEPT ![r] = IF ok THEN "ok" ELSE "failed"]
    /\ ce_pc' = [ce_pc EXCEPT ![r] = "diff"]
    /\ UNCHANGED <<ce_created, ce_fd, ce_stat, ce_open, ce_read, ce_stdout, dir, inodes,
                   ce_overlap, ceFixed, cpVars, dtVars>>

\* subprocess.run(["diff", "env1_packages.txt", "env2_packages.txt"], ...)
\* starts the diff process and waits for it. The process (GNU diff, files
\* shorter than one block of its buffer) makes these calls in turn:
\*   stat of the first name, stat of the second; when one is missing it
\*       reports the error and ends, nothing opened, nothing written;
\*   open of the first name, open of the second; when an open fails it ends
\*       after both, nothing read, nothing written;
\*   read of the first file until a read returns nothing, then the same of
\*       the second file; then it writes the differences.

\* the diff process is started and stats the first name
CE_DiffStat1(r) ==
    /\ ce_pc[r] = "diff"
    /\ ce_stat' = [ce_stat EXCEPT ![r] = <<dir[File1] # NoInode>>]
    /\ ce_pc' = [ce_pc EXCEPT ![r] = "diff_stat2"]
    /\ UNCHANGED <<ce_status, ce_created, ce_fd, ce_open, ce_read, ce_stdout, dir, inodes,
                   ce_overlap, ceFixed, cpVars, dtVars>>

\* stat of the second name; with a name missing the process ends here
CE_DiffStat2(r) ==
    /\ ce_pc[r] = "diff_stat2"
    /\ ce_stat' = [ce_stat EXCEPT ![r] = Append(@, dir[File2] # NoInode)]
    /\ ce_pc' = [ce_pc EXCEPT ![r] =
                    IF ce_stat[r][1] /\ dir[File2] # NoInode THEN "diff_open1" ELSE "display"]
    /\ UNCHANGED <<ce_status, ce_created, ce_fd, ce_open, ce_read, ce_stdout, dir, inodes,
                   ce_overlap, ceFixed, cpVars, dtVars>>

\* open of the first name, which fails when the name has gone since the stat
CE_DiffOpen1(r) ==
    /\ ce_pc[r] = "diff_open1"
    /\ ce_open' = [ce_open EXCEPT ![r] = <<dir[File1]>>]
    /\ ce_pc' = [ce_pc EXCEPT ![r] = "diff_open2"]
    /\ UNCHANGED <<ce_status, ce_created, ce_fd, ce_stat, ce_read, ce_stdout, dir, inodes,
                   ce_overlap, ceFixed, cpVars, dtVars>>

\* open of the second name; with an open failed the process ends here
CE_DiffOpen2(r) ==
    /\ ce_pc[r] = "diff_open2"
    /\ ce_open' = [ce_open EXCEPT ![r] = Append(@, dir[File2])]
    /\ ce_pc' = [ce_pc EXCEPT ![r] =
                    IF ce_open[r][1] # NoInode /\ dir[File2] # NoInode
                    THEN "diff_read1" ELSE "display"]
    /\ UNCHANGED <<ce_status, ce_created, ce_fd, ce_stat, ce_read, ce_stdout, dir, inodes,
                   ce_overlap, ceFixed, cpVars, dtVars>>

\* what the process has read of the k-th file so far
Buffered(r, k) == IF Len(ce_read[r]) >= k THEN ce_read[r][k].text ELSE <<>>

\* read(fd, ...): what the file holds from the offset of the descriptor on
Chunk(f, offset) ==
    IF Len(f.text) > offset THEN SubSeq(f.text, offset + 1, Len(f.text)) ELSE <<>>

\* one read call on the k-th file: what it returns joins the buffer and the
\* loop goes on; when it returns nothing the file is done
DiffReads(r, k, next) ==
    LET f == inodes[ce_open[r][k]]
        got == Chunk(f, Len(Buffered(r, k)))
        had == SubSeq(ce_read[r], 1, k - 1)
    IN  IF got # <<>>
        THEN /\ ce_read' = [ce_read EXCEPT ![r] =
                    Append(had, [writer |-> f.writer, text |-> Buffered(r, k) \o got])]
             /\ UNCHANGED ce_pc
        ELSE /\ ce_read' = [ce_read EXCEPT ![r] =
                    IF Len(@) >= k THEN @ ELSE Append(had, [writer |-> f.writer, text |-> <<>>])]
             /\ ce_pc' = [ce_pc EXCEPT ![r] = next]

CE_DiffRead1(r) ==
    /\ ce_pc[r] = "diff_read1"
    /\ DiffReads(r, 1, "diff_read2")
    /\ UNCHANGED <<ce_status, ce_created, ce_fd, ce_stat, ce_open, ce_stdout, dir, inodes,
                   ce_overlap, ceFixed, cpVars, dtVars>>

\* after the last read the process writes the differences and ends;
\* result.stdout is decoded
CE_DiffRead2(r) ==
    /\ ce_pc[r] = "diff_read2"
    /\ DiffReads(r, 2, "display")
    /\ UNCHANGED <<ce_status, ce_created, ce_fd, ce_stat, ce_open, ce_stdout, dir, inodes,
                   ce_overlap, ceFixed, cpVars, dtVars>>

\* subprocess.run raises OSError: the diff process could not be started
CE_DiffRaises(r) ==
    /\ ce_pc[r] = "diff"
    /\ ce_pc' = [ce_pc EXCEPT ![r] = "raised"]
    /\ UNCHANGED <<ce_status, ce_created, ce_fd, ce_stat, ce_open, ce_read, ce_stdout, dir, inodes,
                   ce_overlap, ceFixed, cpVars, dtVars>>

\* the diff process of run r read both files to their ends
Compared(r) ==
    /\ Len(ce_read[r]) = 2
    /\ ce_pc[r] \notin {"diff_read1", "diff_read2"}

\* result.stdout.decode('utf-8'): the lines diff wrote, each ended by \n;
\* nothing when diff ended without comparing
DiffOutput(r) ==
    IF Len(ce_read[r]) = 2
    THEN JoinLines(DiffLinesOf(ce_read[r][1].text, ce_read[r][2].text), << <<"\n">> >>)
    ELSE <<>>

\* what display_table(diff_output, env1, env2) prints for run r, one element
\* per print call
TableOf(r) == DisplayTable(DiffOutput(r), ce_args[r].env1, ce_args[r].env2)

\* display_table(diff_output, env1, env2): every print goes through
CE_Display(r) ==
    /\ ce_pc[r] = "display"
    /\ ce_stdout' = [ce_stdout EXCEPT ![r] = @ \o TableOf(r)]
    /\ ce_pc' = [ce_pc EXCEPT ![r] =
                    IF DisplayRaises(ce_args[r].env1, ce_args[r].env2)
                    THEN "raised" ELSE "remove1"]
    /\ UNCHANGED <<ce_status, ce_created, ce_fd, ce_stat, ce_open, ce_read, dir, inodes,
                   ce_overlap, ceFixed, cpVars, dtVars>>

\* a print raises OSError (standard output is a pipe whose reader left): the
\* first k prints went through, the next one raises
CE_DisplayStdoutClosed(r) ==
    /\ ce_pc[r] = "display"
    /\ \E k \in 0..(Len(TableOf(r)) - 1) :
          ce_stdout' = [ce_stdout EXCEPT ![r] = @ \o SubSeq(TableOf(r), 1, k)]
    /\ ce_pc' = [ce_pc EXCEPT ![r] = "raised"]
    /\ UNCHANGED <<ce_status, ce_created, ce_fd, ce_stat, ce_open, ce_read, dir, inodes,
                   ce_overlap, ceFixed, cpVars, dtVars>>

\* os.remove(name): FileNotFoundError when the name names no file,
\* PermissionError when the directory does not let the name go
Remove(r, name, next) ==
    \E ok \in BOOLEAN :
        IF ok /\ dir[name] # NoInode
        THEN /\ dir' = [dir EXCEPT ![name] = NoInode]
             /\ ce_pc' = [ce_pc EXCEPT ![r] = next]
        ELSE /\ ce_pc' = [ce_pc EXCEPT ![r] = "raised"]
             /\ UNCHANGED dir

\* os.remove("env1_packages.txt")
CE_Remove1(r) ==
    /\ ce_pc[r] = "remove1"
    /\ Remove(r, File1, "remove2")
    /\ UNCHANGED <<ce_status, ce_created, ce_fd, ce_stat, ce_open, ce_read, ce_stdout, inodes,
                   ce_overlap, ceFixed, cpVars, dtVars>>

\* os.remove("env2_packages.txt"), then compare_envs returns
CE_Remove2(r) ==
    /\ ce_pc[r] = "remove2"
    /\ Remove(r, File2, "done")
    /\ UNCHANGED <<ce_status, ce_created, ce_fd, ce_stat, ce_open, ce_read, ce_stdout, inodes,
                   ce_overlap, ceFixed, cpVars, dtVars>>

CE_Next(r) ==
    \/ CE_Call(r)
    \/ CE_CheckDiff(r)
    \/ CE_FindSetup(r)
    \/ CE_ShSource(r)
    \/ CE_ShActivate1(r)
    \/ CE_ShRedirect1(r)
    \/ CE_ShList1(r)
    \/ CE_ShActivate2(r)
    \/ CE_ShRedirect2(r)
    \/ CE_ShList2(r)
    \/ CE_ShDeactivate(r)
    \/ CE_DiffStat1(r)
    \/ CE_DiffStat2(r)
    \/ CE_DiffOpen1(r)
    \/ CE_DiffOpen2(r)
    \/ CE_DiffRead1(r)
    \/ CE_DiffRead2(r)
    \/ CE_DiffRaises(r)
    \/ CE_Display(r)
    \/ CE_DisplayStdoutClosed(r)
    \/ CE_Remove1(r)
    \/ CE_Remove2(r)

-----------------------------------------------------------------------------
(* Inputs, initial states and specifications *)

T(c) == <<c>>

Names == {T("a"), T("b")}
Versions == {T("1"), T("2")}
Builds == {T("0"), T("1")}

Records == [name : Names, version : Versions, build : Builds]

\* dicts over Names, in every insertion order
Inventories ==
    {<<>>} \cup {<<r>> : r \in Records}
           \cup {<<r, s>> : <<r, s>> \in {p \in Records \X Records : p[1].name # p[2].name}}

SpecTexts ==
    { <<"a">>,
      <<"A", "=", "1">>,
      <<"a", "=", "1", "=", "0">>,
      <<"b", "=", "*", "=", "1">>,
      <<"b", "=", "2">>,
      <<"=", "1">> }

SpecLists == UNION {[1..n -> SpecTexts] : n \in 0..MaxSpecs}

DiffLines ==
    { <<"<", " ", "p">>,
      <<">", " ", "p">>,
      <<">", " ", "q">>,
      <<"<", "p">>,
      <<">">>,
      <<"1", "d", "0">>,
      <<" ", "<", " ", "p">> }

EnvNames == {<<"e", "1">>, <<"e", "2">>}

EnvArgs == [kind : {"str", "list"}, name : EnvNames]

\* every terminator str.splitlines knows
Terminators == {<<c>> : c \in LineBreaks} \cup {<<"\r", "\n">>}

\* the labels display_table is called with
TableArgs ==
    {<<a, b>> \in EnvArgs \X EnvArgs : a.name = <<"e", "1">> /\ b.name = <<"e", "2">>}

EnvsFresh ==
    /\ ce_pc = [r \in Runs |-> "idle"]
    /\ ce_status = [r \in Runs |-> "notrun"]
    /\ ce_created = [r \in Runs |-> {}]
    /\ ce_fd = [r \in Runs |-> 0]
    /\ ce_overlap = [r \in Runs |-> FALSE]
    /\ ce_stat = [r \in Runs |-> <<>>]
    /\ ce_open = [r \in Runs |-> <<>>]
    /\ ce_read = [r \in Runs |-> NotRead]
    /\ ce_stdout = [r \in Runs |-> <<>>]
    /\ dir = [f \in TempFiles |-> NoInode]
    /\ inodes = [i \in Inodes |-> NoFile]

EnvsIdle ==
    /\ EnvsFresh
    /\ ce_args = [r \in Runs |-> [env1 |-> [kind |-> "str", name |-> <<>>],
                                  env2 |-> [kind |-> "str", name |-> <<>>]]]
    /\ which_on_path = TRUE
    /\ diff_installed = TRUE
    /\ conda_on_path = TRUE
    /\ shell_ok = TRUE
    /\ existing = {}

CompareIdle ==
    /\ active_pkgs = <<>>
    /\ specification_pkgs = <<>>
    /\ idx = 1
    /\ output = <<>>
    /\ miss = FALSE
    /\ cp_pc = "idle"
    /\ cp_ret = NoResult

TableIdle ==
    /\ dt_lines = <<>>
    /\ dt_eols = <<>>
    /\ dt_env1 = <<>>
    /\ dt_env2 = <<>>
    /\ dt_out = <<>>
    /\ dt_pc = "idle"

InitCompare ==
    /\ TableIdle
    /\ EnvsIdle
    /\ active_pkgs \in Inventories
    /\ specification_pkgs \in SpecLists
    /\ idx = 1
    /\ output = <<>>
    /\ miss = FALSE
    /\ cp_pc = "loop"
    /\ cp_ret = NoResult

NextCompare ==
    \/ CP_ParseError
    \/ CP_NotFound
    \/ CP_Mismatch
    \/ CP_Match
    \/ CP_Return

SpecCompare == InitCompare /\ [][NextCompare]_vars

InitTable ==
    /\ CompareIdle
    /\ EnvsIdle
    /\ dt_lines \in UNION {[1..n -> DiffLines] : n \in 0..MaxLines}
    /\ dt_eols \in Terminators \X {<<"\n">>, <<"\f">>, <<"\r", "\n">>}
    /\ \E p \in TableArgs : dt_env1 = p[1] /\ dt_env2 = p[2]
    /\ dt_out = <<>>
    /\ dt_pc = "call"

NextTable == DT_Render \/ DT_Raise

SpecTable == InitTable /\ [][NextTable]_vars

ArgPairs == [env1 : EnvArgs, env2 : EnvArgs]

\* one call of compare_envs in an empty working directory
InitEnvs ==
    /\ CompareIdle
    /\ TableIdle
    /\ EnvsFresh
    /\ \E a \in ArgPairs : ce_args = [r \in Runs |-> a]
    /\ which_on_path \in BOOLEAN
    /\ diff_installed \in BOOLEAN
    /\ conda_on_path \in BOOLEAN
    /\ shell_ok \in BOOLEAN
    /\ existing \in SUBSET EnvNames

NextEnvs == CE_Next(1)

SpecEnvs == InitEnvs /\ [][NextEnvs]_vars

\* the calls of two callers: compare_envs("e1", "e2") next to a call with the
\* same names, with the names exchanged, or with the lists execute passes
ConcurrentArgs ==
    {a \in [Runs -> ArgPairs] :
        /\ a[1].env1 = [kind |-> "str", name |-> <<"e", "1">>]
        /\ a[1].env2 = [kind |-> "str", name |-> <<"e", "2">>]
        /\ a[2].env1.kind = a[2].env2.kind
        /\ a[2].env1.name # a[2].env2.name
        /\ a[2].env1.kind = "list" => a[2].env1.name = <<"e", "1">>}

\* two callers in the same working directory
InitConcurrent ==
    /\ CompareIdle
    /\ TableIdle
    /\ EnvsFresh
    /\ ce_args \in ConcurrentArgs
    /\ which_on_path \in BOOLEAN
    /\ diff_installed \in BOOLEAN
    /\ conda_on_path \in BOOLEAN
    /\ shell_ok \in BOOLEAN
    /\ existing \in SUBSET EnvNames

NextConcurrent == \E r \in Runs : CE_Next(r)

SpecConcurrent == InitConcurrent /\ [][NextConcurrent]_vars

-----------------------------------------------------------------------------
(* Properties of display_table *)

Marked(line) == StartsWith(line, "<") \/ StartsWith(line, ">")

RECURSIVE MarkedLines(_)
MarkedLines(lines) ==
    IF lines = <<>> THEN <<>>
    ELSE (IF Marked(Head(lines)) THEN <<Head(lines)>> ELSE <<>>)
         \o MarkedLines(Tail(lines))

\* the three columns of a printed row, between the colour codes
RowPackage(row) == SubSeq(row, 2, 1 + PackageWidth)
RowA(row) == SubSeq(row, 3 + PackageWidth, 2 + PackageWidth + EnvWidth)
RowB(row) == SubSeq(row, 4 + PackageWidth + EnvWidth, 3 + PackageWidth + 2 * EnvWidth)

\* C5: after the three header lines display_table prints exactly one row per
\* line that starts with '<' or '>', in line order, nothing merged; a '<' line
\* is Present/Absent, a '>' line Absent/Present, and the label is the line
\* without its first two characters.
C5_OneRowPerMarkedLine ==
    dt_pc = "done" =>
        LET rows == SubSeq(dt_out, 4, Len(dt_out))
            want == MarkedLines(dt_lines)
        IN  /\ Len(dt_out) >= 3
            /\ Len(rows) = Len(want)
            /\ \A i \in DOMAIN want :
                  /\ Len(rows[i]) = 4 + PackageWidth + 2 * EnvWidth
                  /\ RowPackage(rows[i])
                         = Pad(SubSeq(want[i], 3, Len(want[i])), PackageWidth)
                  /\ RowA(rows[i]) = Pad(IF want[i][1] = "<" THEN Present ELSE Absent, EnvWidth)
                  /\ RowB(rows[i]) = Pad(IF want[i][1] = "<" THEN Absent ELSE Present, EnvWidth)

C5_Witness ==
    /\ dt_pc = "done"
    /\ dt_lines = << <<"<", " ", "p">>, <<"1", "d", "0">>, <<">", " ", "p">> >>
    /\ dt_eols = << <<"\f">>, <<"\r", "\n">> >>
    /\ Len(dt_out) = 5

-----------------------------------------------------------------------------
(* Properties of compare_packages *)

\* the classification of one specification entry against inventory I
Verdict(I, e) ==
    IF MatchSpecRaises(e) THEN "Malformed"
    ELSE LET ms == MatchSpec(e)
         IN  IF ms.name \notin DictKeys(I) THEN "Missing"
             ELSE IF Match(ms, DictGet(I, ms.name)) THEN "Matched"
             ELSE "Mismatched"

Failing(I, e) == Verdict(I, e) \in {"Missing", "Mismatched"}

Rendered(rec) == rec.name \o <<"==">> \o rec.version \o <<"=">> \o rec.build

Reverse(s) == [i \in 1..Len(s) |-> s[Len(s) + 1 - i]]

\* the line a failing entry is to give
ExpectedLine(I, e) ==
    LET ms == MatchSpec(e)
    IN  IF Verdict(I, e) = "Missing"
        THEN ms.name \o <<" not found">>
        ELSE ms.name \o <<" found but mismatch. Specification pkg: ">> \o e
                     \o <<", Running pkg: ">> \o Rendered(DictGet(I, ms.name))

\* one line per failing entry of S[k..], in the order of S
RECURSIVE ExpectedLines(_, _, _)
ExpectedLines(I, S, k) ==
    IF k > Len(S) THEN <<>>
    ELSE (IF Failing(I, S[k]) THEN <<ExpectedLine(I, S[k])>> ELSE <<>>)
         \o ExpectedLines(I, S, k + 1)

RECURSIVE FailureLinesOf(_)
FailureLinesOf(out) ==
    IF out = <<>> THEN <<>>
    ELSE (IF Head(out) = SuccessLine THEN <<>> ELSE <<Head(out)>>)
         \o FailureLinesOf(Tail(out))

InSeq(x, s) == \E i \in DOMAIN s : s[i] = x

\* C1: compare_packages returns code 0 iff no entry of S is Missing or Mismatched;
\* then the result is exactly the success line; otherwise the code is 1 and the
\* result holds no success line.
C1_OutcomeCode ==
    cp_pc = "done" =>
        LET anyFail == \E k \in DOMAIN specification_pkgs :
                           Failing(active_pkgs, specification_pkgs[k])
        IN  /\ (cp_ret.code = 0) <=> ~anyFail
            /\ ~anyFail => cp_ret.output = <<SuccessLine>>
            /\ anyFail => cp_ret.code = 1 /\ ~InSeq(SuccessLine, cp_ret.output)

C1_Witness ==
    /\ cp_pc = "done"
    /\ cp_ret.code = 0
    /\ Len(specification_pkgs) >= 2
    /\ Len(active_pkgs) = 2

\* C2: every entry whose parsed name is not a key of the inventory gives the
\* line "<name> not found" in the result, and the code is 1, whatever the other
\* entries are.
C2_MissingReported ==
    cp_pc = "done" =>
        \A k \in DOMAIN specification_pkgs :
            LET ms == MatchSpec(specification_pkgs[k])
            IN  ms.name \notin DictKeys(active_pkgs) =>
                    /\ InSeq(ms.name \o <<" not found">>, cp_ret.output)
                    /\ cp_ret.code = 1

C2_Witness ==
    /\ cp_pc = "done"
    /\ \E k, j \in DOMAIN specification_pkgs :
          /\ Verdict(active_pkgs, specification_pkgs[k]) = "Missing"
          /\ specification_pkgs[k] # LowerText(specification_pkgs[k])
          /\ Verdict(active_pkgs, specification_pkgs[j]) = "Matched"

C3_State ==
    cp_pc = "done" =>
        \A k \in DOMAIN specification_pkgs :
            Verdict(active_pkgs, specification_pkgs[k]) = "Mismatched" =>
                /\ \E n \in DOMAIN cp_ret.output :
                      /\ Contains(cp_ret.output[n], specification_pkgs[k])
                      /\ Contains(cp_ret.output[n],
                             Rendered(DictGet(active_pkgs,
                                              MatchSpec(specification_pkgs[k]).name)))
                /\ cp_ret.code = 1

C3_Step ==
    (InLoop /\ Verdict(active_pkgs, specification_pkgs[idx]) = "Matched")
        => output' = output

\* C3: every entry whose name is a key of I but whose predicate rejects I[name]
\* gives a line carrying the specification text and the installed record as
\* name==version=build, and the code is 1; the step over an entry whose
\* predicate accepts I[name] appends no line.
C3_MismatchReported == []C3_State /\ [][C3_Step]_vars

C3_Witness ==
    /\ cp_pc = "done"
    /\ \E k, j \in DOMAIN specification_pkgs :
          /\ Verdict(active_pkgs, specification_pkgs[k]) = "Mismatched"
          /\ Verdict(active_pkgs, specification_pkgs[j]) = "Matched"
          /\ LET rec == DictGet(active_pkgs, MatchSpec(specification_pkgs[k]).name)
             IN  rec.version # rec.build

\* C4: the Missing/Mismatched lines of the result are exactly one line per
\* failing entry of S, repeated entries included, in the order of S, whatever
\* the insertion order of I (the expected lines are taken over I reversed).
C4_OneLinePerFailureInOrder ==
    cp_pc = "done" =>
        FailureLinesOf(cp_ret.output)
            = ExpectedLines(Reverse(active_pkgs), specification_pkgs, 1)

C4_Witness ==
    /\ cp_pc = "done"
    /\ Len(active_pkgs) = 2
    /\ Len(specification_pkgs) = 3
    /\ Failing(active_pkgs, specification_pkgs[1])
    /\ ~Failing(active_pkgs, specification_pkgs[2])
    /\ specification_pkgs[3] = specification_pkgs[1]
    /\ Len(cp_ret.output) = 2

\* C8: when parsing S[k] raises, compare_packages returns nothing (no code, no
\* lines) and stops at S[k]: k is the first malformed entry, the lines
\* gathered are those of the entries before S[k] alone, no later entry is
\* parsed or evaluated and no step follows; a list with a malformed entry
\* never gives a result.
C8_FailFast ==
    /\ cp_pc = "raised" =>
          /\ cp_ret = NoResult
          /\ idx \in DOMAIN specification_pkgs
          /\ MatchSpecRaises(specification_pkgs[idx])
          /\ \A j \in 1..(idx - 1) : ~MatchSpecRaises(specification_pkgs[j])
          /\ output = ExpectedLines(active_pkgs, SubSeq(specification_pkgs, 1, idx - 1), 1)
          /\ ~ENABLED NextCompare
    /\ cp_pc = "done" =>
          \A j \in DOMAIN specification_pkgs : ~MatchSpecRaises(specification_pkgs[j])

C8_Witness ==
    /\ cp_pc = "raised"
    /\ idx = 3
    /\ Len(specification_pkgs) = 3
    /\ Len(output) = 2

-----------------------------------------------------------------------------
(* Properties of compare_envs *)

Ended(r) == ce_pc[r] \in {"done", "raised", "exited"}

\* the two lists run r is to diff
OwnLists(r) ==
    << [writer |-> r, text |-> PkgText(StrOf(ce_args[r].env1))],
       [writer |-> r, text |-> PkgText(StrOf(ce_args[r].env2))] >>

\* the call of line 162 was made and the diff process was started
DiffRan(r) == ce_stat[r] # <<>>

\* C6: a run of compare_envs that created a temporary file has removed both
\* by the time it ends, however it ends: no run leaves a temporary file in the
\* working directory.
C6_GuaranteedCleanup ==
    \A r \in Runs :
        (Ended(r) /\ ce_created[r] # {}) => \A f \in TempFiles : dir[f] = NoInode

\* C7: when the diff utility is not available the run prints the message and
\* exits at check_diff_installed: no file is written, no environment is
\* materialized, nothing is diffed or rendered, no later step is reached.
C7_FailFastWithoutDiff ==
    \A r \in Runs :
        (~diff_installed /\ ce_pc[r] # "idle") =>
            /\ ce_pc[r] \in {"check", "exited"}
            /\ ce_pc[r] = "exited" => ce_stdout[r] = <<MissingDiffMessage>>
            /\ ce_pc[r] = "check" => ce_stdout[r] = <<>>
            /\ ce_status[r] = "notrun"
            /\ ce_created[r] = {}
            /\ ~DiffRan(r)
            /\ ce_read[r] = NotRead
            /\ \A f \in TempFiles : dir[f] = NoInode

\* a run without the diff utility and without `which`: check_diff_installed
\* raised, no message was printed and exit(1) was not reached
C7_RaisedWithoutMessage ==
    /\ ~diff_installed
    /\ ~which_on_path
    /\ ce_pc[1] = "raised"
    /\ ce_stdout[1] = <<>>

\* the part of C7 that holds: without the diff utility a run goes no further
\* than check_diff_installed (it exits after the message, or ends there by an
\* exception with nothing printed), runs no command, writes no file and
\* starts no diff
C7_NothingDoneWithoutDiff ==
    \A r \in Runs :
        (~diff_installed /\ ce_pc[r] # "idle") =>
            /\ ce_pc[r] \in {"check", "exited", "raised"}
            /\ ce_pc[r] = "exited" => which_on_path /\ ce_stdout[r] = <<MissingDiffMessage>>
            /\ ce_pc[r] # "exited" => ce_stdout[r] = <<>>
            /\ ce_status[r] = "notrun"
            /\ ce_created[r] = {}
            /\ ~DiffRan(r)
            /\ ce_read[r] = NotRead
            /\ \A f \in TempFiles : dir[f] = NoInode

\* C9: the list of environment A is written before the materialization of B
\* begins, and the diff utility is run (line 162) only in a run where both
\* materializations completed.
C9_DiffOnlyAfterBothLists ==
    \A r \in Runs :
        /\ ce_pc[r] \in {"sh_activate2", "sh_redirect2", "sh_list2", "sh_deactivate"} =>
              /\ File1 \in ce_created[r]
              /\ dir[File1] # NoInode
              /\ inodes[dir[File1]] = OwnLists(r)[1]
        /\ DiffRan(r) =>
              /\ ce_status[r] = "ok"
              /\ ce_created[r] = TempFiles

\* the ordering part of C9, which holds of a lone run: the first list is in
\* its file while the second environment is materialized, and diff is run
\* only once os.system has returned
C9_ListsInOrder ==
    \A r \in Runs :
        /\ ce_pc[r] \in {"sh_activate2", "sh_redirect2", "sh_list2", "sh_deactivate"} =>
              /\ File1 \in ce_created[r]
              /\ dir[File1] # NoInode
              /\ inodes[dir[File1]] = OwnLists(r)[1]
        /\ DiffRan(r) => ce_status[r] # "notrun"

\* C10: a run that no other call overlapped (no call was in progress at any
\* moment of it) always diffs its own two lists: whenever diff is run in it,
\* diff compares, and what it has read of each file is the run's own list.
C10_LoneRunDiffsOwnLists ==
    \A r \in Runs :
        (~ce_overlap[r] /\ ce_pc[r] \in {"display", "remove1", "remove2", "done"}) =>
            /\ Compared(r)
            /\ ce_read[r] = OwnLists(r)

\* a run no call overlapped whose diff compared the lists an earlier call
\* left in the working directory
C10_LoneRunReadsLeftovers ==
    \E r \in Runs :
        /\ ~ce_overlap[r]
        /\ Compared(r)
        /\ \A i \in 1..2 :
              /\ ce_read[r][i].writer \in Runs \ {r}
              /\ ce_read[r][i].text \in {PkgText(e) : e \in EnvNames}
              /\ ce_read[r][i].text # OwnLists(r)[i].text

\* an interleaving in which a run whose own lists were both written diffs a
\* list the other run wrote
C10_ForeignListRead ==
    \E r \in Runs :
        /\ ce_overlap[r]
        /\ ce_status[r] = "ok"
        /\ Compared(r)
        /\ \E i \in 1..2 :
              /\ ce_read[r][i].writer \in Runs \ {r}
              /\ ce_read[r][i].text \in {PkgText(e) : e \in EnvNames}
              /\ ce_read[r][i].text # OwnLists(r)[i].text

\* an interleaving in which a run whose own lists were both written diffs a
\* file the redirection of the other run has just emptied
C10_EmptiedListRead ==
    \E r \in Runs :
        /\ ce_status[r] = "ok"
        /\ Compared(r)
        /\ \E i \in 1..2 :
              /\ ce_read[r][i].writer \in Runs \ {r}
              /\ ce_read[r][i].text = <<>>

\* an interleaving in which the diff of a run reads its own first list and
\* then a second file the other run emptied in between
C10_ChangedBetweenReads ==
    \E r \in Runs :
        /\ ce_status[r] = "ok"
        /\ Compared(r)
        /\ ce_read[r][1] = OwnLists(r)[1]
        /\ ce_read[r][2].writer \in Runs \ {r}
        /\ ce_read[r][2].text = <<>>
        /\ dir[File1] # NoInode
        /\ inodes[dir[File1]].writer \in Runs \ {r}
        /\ inodes[dir[File1]].text # <<>>

\* an interleaving in which the other run writes between two read calls of
\* the diff process on one file: what diff has read is the head of one list
\* and the tail of another, a text the file never held at the first read
C10_ChangedWithinRead ==
    \E r \in Runs :
        /\ ce_status[r] = "ok"
        /\ Compared(r)
        /\ ce_read[r][1].text \notin ({<<>>} \cup {PkgText(e) : e \in EnvNames})
        /\ ce_read[r][2] = OwnLists(r)[2]

\* an interleaving in which a run diffs a file that holds the list of one run
\* laid over the list of the other: neither run's list
C10_OverlaidListRead ==
    \E r \in Runs :
        /\ ce_status[r] = "ok"
        /\ Compared(r)
        /\ \E i \in 1..2 :
              ce_read[r][i].text \notin ({<<>>} \cup {PkgText(e) : e \in EnvNames})

\* an interleaving in which the other run removed a file before the diff of
\* this run, whose own lists were both written, looked for it or opened it:
\* diff ends without comparing
C10_RemovedBeforeDiff ==
    \E r \in Runs :
        /\ ce_status[r] = "ok"
        /\ \/ \E i \in DOMAIN ce_stat[r] : ~ce_stat[r][i]
           \/ \E i \in DOMAIN ce_open[r] : ce_open[r][i] = NoInode

\* an interleaving in which the other run removed a file before this run
\* removes it: os.remove is about to raise
C10_RemovedBeforeRemove ==
    \E r \in Runs :
        /\ ce_status[r] = "ok"
        /\ \/ ce_pc[r] = "remove1" /\ dir[File1] = NoInode
           \/ ce_pc[r] = "remove2" /\ dir[File2] = NoInode

====
